---------------------------- MODULE Spec2Model ----------------------------
(***************************************************************************)
(* Verification model of gregLibert/smart-card (Go).                       *)
(*                                                                         *)
(* Modelled parts:                                                         *)
(*   pkg/bits          bit-field helpers                                   *)
(*   pkg/iso7816       Class, CommandAPDU.Bytes, ParseResponseAPDU,        *)
(*                     StatusWord, Transaction/Trace, Client.Send,         *)
(*                     ParseSelectData                                     *)
(*   pkg/tlv           UnmarshalFromPackets (tag-directed mapping)         *)
(*                                                                         *)
(* Client.Send is a recursive procedure that blocks on the transport; it   *)
(* is modelled as a call stack of frames, one step per Transmit exchange   *)
(* and one step per return of a recursive call.  The pure functions are    *)
(* checked under specifications whose Init draws an input and whose single *)
(* action applies the function.                                            *)
(***************************************************************************)
EXTENDS Integers, Sequences, FiniteSets, TLC

VARIABLES
    stack,   \* call stack of Client.Send: frames [cmd, pc, trace], top is last
    wire,    \* log of the Transmit calls made so far: [apdu, raw, reply]
    ret,     \* value returned by the Send frame that returned last
    input,   \* argument of the operation under check
    output   \* result of a pure operation, once applied

vars == <<stack, wire, ret, input, output>>

(***************************************************************************)
(* Bounds of the model.                                                    *)
(***************************************************************************)
\* Largest number of Transmit calls one Send invocation may make in the model.
MaxExchanges == 4
\* Largest length of a hand-built Trace given to Trace.IsSuccess.
MaxTraceLen == 3

(***************************************************************************)
(* pkg/bits                                                                *)
(***************************************************************************)
RECURSIVE Pow2(_)
Pow2(n) == IF n = 0 THEN 1 ELSE 2 * Pow2(n - 1)

Bit(n) == IF n < 1 \/ n > 8 THEN 0 ELSE Pow2(n - 1)

IsSet(b, n) == IF Bit(n) = 0 THEN FALSE ELSE (b \div Bit(n)) % 2 = 1

GetRange(b, high, low) ==
    IF high < low \/ high > 8 \/ low < 1
    THEN 0
    ELSE (b \div Pow2(low - 1)) % Pow2(high - low + 1)

Set(b, n) == IF IsSet(b, n) THEN b ELSE b + Bit(n)

\* Go's | on two bytes.
RECURSIVE Or8From(_, _, _)
Or8From(a, b, n) ==
    IF n > 8 THEN 0
    ELSE (IF IsSet(a, n) \/ IsSet(b, n) THEN Bit(n) ELSE 0) + Or8From(a, b, n + 1)

Or8(a, b) == Or8From(a, b, 1)

\* Go's byte(x) conversion of a non-negative int.
ToByte(x) == x % 256

(***************************************************************************)
(* pkg/iso7816/class.go                                                    *)
(***************************************************************************)
SMNone == 0
SMProprietary == 1
SMHeaderNoProc == 2
SMHeaderAuth == 3

ZeroClass ==
    [Raw |-> 0, IsProprietary |-> FALSE, IsChained |-> FALSE,
     SecureMessaging |-> SMNone, Channel |-> 0]

\* NewClass: the decoded Class, with ok = FALSE for the reserved value 0xFF.
NewClass(cla) ==
    IF cla = 255 THEN [ok |-> FALSE, class |-> ZeroClass]
    ELSE IF IsSet(cla, 8)
    THEN [ok |-> TRUE, class |-> [ZeroClass EXCEPT !.Raw = cla, !.IsProprietary = TRUE]]
    ELSE IF ~IsSet(cla, 7)
    THEN [ok |-> TRUE,
          class |-> [Raw |-> cla, IsProprietary |-> FALSE,
                     IsChained |-> IsSet(cla, 5),
                     SecureMessaging |-> GetRange(cla, 4, 3),
                     Channel |-> GetRange(cla, 2, 1)]]
    ELSE [ok |-> TRUE,
          class |-> [Raw |-> cla, IsProprietary |-> FALSE,
                     IsChained |-> IsSet(cla, 5),
                     SecureMessaging |-> IF IsSet(cla, 6) THEN SMHeaderNoProc ELSE SMNone,
                     Channel |-> GetRange(cla, 4, 1) + 4]]

\* Bit 6 of the further-interindustry layout: set for every SM other than None.
FurtherSMBit(sm) == sm # SMNone

\* Class.Encode (it never returns an error).
Encode(c) ==
    IF c.IsProprietary THEN c.Raw
    ELSE IF c.Channel <= 3
    THEN LET r1 == IF c.IsChained THEN Set(0, 5) ELSE 0
             r2 == Or8(r1, ToByte(c.SecureMessaging * 4))
         IN  Or8(r2, c.Channel)
    ELSE LET r1 == Set(0, 7)
             r2 == IF c.IsChained THEN Set(r1, 5) ELSE r1
             r3 == IF FurtherSMBit(c.SecureMessaging) THEN Set(r2, 6) ELSE r2
         IN  Or8(r3, ToByte(c.Channel - 4))

(***************************************************************************)
(* pkg/iso7816/instruction.go                                              *)
(***************************************************************************)
INS_SELECT == 164         \* 0xA4
INS_READ_RECORD == 178    \* 0xB2
INS_GET_RESPONSE == 192   \* 0xC0
INS_GET_DATA == 202       \* 0xCA

\* NewInstruction for a code outside the reserved 6X / 9X ranges.
NewInstruction(ins) == [Raw |-> ins, IsBERTLV |-> IsSet(ins, 1)]

(***************************************************************************)
(* pkg/iso7816/apdu.go                                                     *)
(***************************************************************************)
MaxShortLc == 255
MaxShortLe == 256
MaxExtendedLc == 65535
MaxExtendedLe == 65536

NewCommandAPDU(cla, ins, p1, p2, data, ne) ==
    [Class |-> cla, Instruction |-> ins, P1 |-> p1, P2 |-> p2,
     Data |-> data, Ne |-> ne]

\* Off-by-one at the short Le limit.
IsExtendedFrom256(nc, ne) == nc > MaxShortLc \/ ne >= MaxShortLe

\* Encoding mode chosen by CommandAPDU.Bytes.
IsExtended(nc, ne) == nc > MaxShortLc \/ ne > MaxShortLe

\* Lc field followed by the data field.
LcField(data, ext) ==
    LET nc == Len(data) IN
    IF nc > 0
    THEN (IF ~ext THEN <<ToByte(nc)>>
          ELSE <<0, ToByte(nc \div 256), ToByte(nc)>>) \o data
    ELSE <<>>

\* Le field.
LeField(nc, ne, ext) ==
    IF ne > 0
    THEN IF ~ext
         THEN (IF ne = MaxShortLe THEN <<0>> ELSE <<ToByte(ne)>>)
         ELSE (IF nc = 0 THEN <<0>> ELSE <<>>) \o
              (IF ne = MaxExtendedLe THEN <<0, 0>>
               ELSE <<ToByte(ne \div 256), ToByte(ne)>>)
    ELSE <<>>

\* CommandAPDU.Bytes (Class.Encode never fails, so neither does Bytes).
Bytes(c) ==
    LET nc == Len(c.Data)
        ne == c.Ne
        ext == IsExtended(nc, ne)
    IN  <<Encode(c.Class), ToByte(c.Instruction.Raw), c.P1, c.P2>>
            \o LcField(c.Data, ext) \o LeField(nc, ne, ext)

NewStatusWord(sw1, sw2) == sw1 * 256 + sw2

NilResponse == [present |-> FALSE, Data |-> <<>>, Status |-> 0]

\* The status is read with SW1 and SW2 exchanged.
ParseResponseAPDUSwapped(raw) ==
    IF Len(raw) < 2 THEN [ok |-> FALSE, resp |-> NilResponse]
    ELSE LET indexSW1 == Len(raw) - 2 IN
         [ok |-> TRUE,
          resp |-> [present |-> TRUE,
                    Data |-> SubSeq(raw, 1, indexSW1),
                    Status |-> NewStatusWord(raw[indexSW1 + 2], raw[indexSW1 + 1])]]

\* ParseResponseAPDU: ok = FALSE for a reply shorter than 2 bytes.
ParseResponseAPDU(raw) ==
    IF Len(raw) < 2 THEN [ok |-> FALSE, resp |-> NilResponse]
    ELSE LET indexSW1 == Len(raw) - 2 IN
         [ok |-> TRUE,
          resp |-> [present |-> TRUE,
                    Data |-> SubSeq(raw, 1, indexSW1),
                    Status |-> NewStatusWord(raw[indexSW1 + 1], raw[indexSW1 + 2])]]

(***************************************************************************)
(* StatusWord                                                              *)
(***************************************************************************)
SW_NO_ERROR == 36864      \* 0x9000

SW1(sw) == ToByte(sw \div 256)
SW2(sw) == ToByte(sw)

\* 6Cxx taken for a success as 61xx is.
IsSuccessWith6C(sw) == sw = SW_NO_ERROR \/ SW1(sw) \in {97, 108}

IsSuccess(sw) == sw = SW_NO_ERROR \/ SW1(sw) = 97

IsWarning(sw) == SW1(sw) = 98 \/ SW1(sw) = 99

IsError(sw) == SW1(sw) >= 100 /\ SW1(sw) <= 111

(***************************************************************************)
(* Transaction and Trace                                                   *)
(***************************************************************************)
Transaction(cmd, resp) == [Command |-> cmd, Response |-> resp]

TransactionIsSuccess(t) ==
    IF ~t.Response.present THEN FALSE ELSE IsSuccess(t.Response.Status)

\* The first transaction taken for the last.
LastIsFirst(t) == IF Len(t) = 0 THEN 0 ELSE 1

\* Trace.Last: index of the final transaction, 0 standing for nil.
Last(t) == IF Len(t) = 0 THEN 0 ELSE Len(t)

TraceIsSuccess(t) ==
    LET last == Last(t) IN
    IF last = 0 THEN FALSE ELSE TransactionIsSuccess(t[last])


(***************************************************************************)
(* pkg/iso7816/client.go: Client.Send                                      *)
(*                                                                         *)
(* A frame is one activation of Send: its command, where it stands (about  *)
(* to transmit, or waiting for the recursive Send started after 61xx or    *)
(* 6Cxx) and its local trace.  ret holds the (Trace, error) pair of the    *)
(* activation that returned last; the invocation has returned to the       *)
(* caller when the stack is empty.                                         *)
(***************************************************************************)
NoErr == "nil"
ErrTransmission == "transmission error"
ErrTooShort == "response too short"

NoRet == [set |-> FALSE, trace |-> <<>>, err |-> NoErr]
Return(trace, err) == [set |-> TRUE, trace |-> trace, err |-> err]

Frame(cmd) == [cmd |-> cmd, pc |-> "transmit", trace |-> <<>>]

Top == stack[Len(stack)]
Pop == SubSeq(stack, 1, Len(stack) - 1)

\* What the card (the Transmitter) may answer to one Transmit call: an
\* error, or raw bytes.
TransportError == [err |-> TRUE, raw |-> <<>>]
Reply(raw) == [err |-> FALSE, raw |-> raw]

Payload5 == <<1, 2, 3, 4, 5>>

Replies ==
    { TransportError,
      Reply(<<>>), Reply(<<144>>),                   \* shorter than 2 bytes
      Reply(<<144, 0>>), Reply(Payload5 \o <<144, 0>>),   \* 90 00
      Reply(<<97, 16>>), Reply(<<97, 0>>),           \* 61 10, 61 00
      Reply(<<108, 5>>), Reply(<<108, 0>>),          \* 6C 05, 6C 00
      Reply(<<106, 130>>) }                          \* 6A 82

\* The commands a caller hands to Send in the model.
ClassOf(cla) == NewClass(cla).class

Commands ==
    { NewCommandAPDU(ClassOf(0), NewInstruction(INS_SELECT), 4, 0, <<49, 80>>, 0),
      NewCommandAPDU(ClassOf(0), NewInstruction(INS_READ_RECORD), 1, 12, <<>>, 256),
      NewCommandAPDU(ClassOf(30), NewInstruction(INS_GET_DATA), 1, 2, <<>>, 0),
      NewCommandAPDU(ClassOf(113), NewInstruction(INS_SELECT), 4, 8, <<49>>, 300),
      NewCommandAPDU(ClassOf(128), NewInstruction(INS_GET_DATA), 0, 102, <<>>, 256),
      NewCommandAPDU(ClassOf(1), NewInstruction(INS_GET_RESPONSE), 0, 0, <<>>, 16) }

\* SW2 = 0 read as "256 bytes available".
GetResponseCmdZeroIs256(cmd, sw2) ==
    NewCommandAPDU([cmd.Class EXCEPT !.IsChained = FALSE],
                   NewInstruction(INS_GET_RESPONSE), 0, 0, <<>>,
                   IF sw2 = 0 THEN 256 ELSE sw2)

\* client.go:68-74: the GET RESPONSE issued after 61xx.
GetResponseCmd(cmd, sw2) ==
    NewCommandAPDU([cmd.Class EXCEPT !.IsChained = FALSE],
                   NewInstruction(INS_GET_RESPONSE), 0, 0, <<>>, sw2)

\* The command the caller handed to Send is re-issued, not the one answered.
WrongLengthCmdOfCaller(cmd, sw2) == [input EXCEPT !.Ne = sw2]

\* client.go:88-89: the command re-issued after 6Cxx.
WrongLengthCmd(cmd, sw2) == [cmd EXCEPT !.Ne = sw2]

\* A slip in the append: the sub-trace is put before the current transaction.
AfterSubSendSwapped(trace, sub) ==
    IF sub.err # NoErr
    THEN Return(trace, sub.err)
    ELSE Return(sub.trace \o trace, NoErr)

\* The error of the recursive Send is dropped.
AfterSubSendErrorDropped(trace, sub) == Return(trace \o sub.trace, NoErr)

\* client.go:76-82 and 91-97: what an activation returns once the recursive
\* Send it started has returned (subTrace, err).
AfterSubSend(trace, sub) ==
    IF sub.err # NoErr
    THEN Return(trace, sub.err)
    ELSE Return(trace \o sub.trace, NoErr)

Running == stack # <<>>
Done == stack = <<>> /\ ret.set

CanTransmit ==
    /\ Running
    /\ Top.pc = "transmit"
    /\ Len(wire) < MaxExchanges

Logged(reply) ==
    Append(wire, [apdu |-> Top.cmd, raw |-> Bytes(Top.cmd), reply |-> reply])

\* client.go:45-48: Transmit fails.
TransmitFails ==
    /\ CanTransmit
    /\ wire' = Logged(TransportError)
    /\ stack' = Pop
    /\ ret' = Return(<<>>, ErrTransmission)
    /\ UNCHANGED <<input, output>>

\* client.go:50-53: the reply cannot be parsed.
ReplyTooShort ==
    /\ CanTransmit
    /\ \E reply \in Replies :
         /\ ~reply.err
         /\ ~ParseResponseAPDU(reply.raw).ok
         /\ wire' = Logged(reply)
    /\ stack' = Pop
    /\ ret' = Return(<<>>, ErrTooShort)
    /\ UNCHANGED <<input, output>>

\* Send with a retry ceiling of one continuation: a 61xx met by a recursive
\* activation is not followed up, the activation gives up with an error.
Reply61Ceiling ==
    /\ CanTransmit
    /\ \E reply \in Replies :
         LET p == ParseResponseAPDU(reply.raw)
             tx == Transaction(Top.cmd, p.resp)
         IN  /\ ~reply.err
             /\ p.ok
             /\ SW1(p.resp.Status) = 97
             /\ wire' = Logged(reply)
             /\ IF Len(stack) >= 2
                THEN /\ stack' = Pop
                     /\ ret' = Return(<<tx>>, "protocol loop exceeded")
                ELSE /\ stack' = Append(Pop, [Top EXCEPT !.pc = "await", !.trace = <<tx>>])
                                   \o <<Frame(GetResponseCmd(Top.cmd, SW2(p.resp.Status)))>>
                     /\ ret' = ret
    /\ UNCHANGED <<input, output>>

\* client.go:55-83 up to the recursive call: 61xx starts a GET RESPONSE.
Reply61 ==
    /\ CanTransmit
    /\ \E reply \in Replies :
         LET p == ParseResponseAPDU(reply.raw)
             tx == Transaction(Top.cmd, p.resp)
         IN  /\ ~reply.err
             /\ p.ok
             /\ SW1(p.resp.Status) = 97
             /\ wire' = Logged(reply)
             /\ stack' = Append(Pop, [Top EXCEPT !.pc = "await", !.trace = <<tx>>])
                            \o <<Frame(GetResponseCmd(Top.cmd, SW2(p.resp.Status)))>>
    /\ UNCHANGED <<ret, input, output>>

\* The corrected Ne is written into the command the transaction points to.
RetriedTxInPlace(tx, newCmd) == [tx EXCEPT !.Command = newCmd]

\* client.go:88-89: the transaction of the activation once the command is
\* cloned with the corrected Ne; the clone is a new object and the command
\* the transaction points to is left as it was.
RetriedTx(tx, newCmd) == tx

\* client.go:85-98 up to the recursive call: 6Cxx re-issues the command.
Reply6C ==
    /\ CanTransmit
    /\ \E reply \in Replies :
         LET p == ParseResponseAPDU(reply.raw)
             tx == Transaction(Top.cmd, p.resp)
             newCmd == WrongLengthCmd(Top.cmd, SW2(p.resp.Status))
         IN  /\ ~reply.err
             /\ p.ok
             /\ SW1(p.resp.Status) = 108
             /\ wire' = Logged(reply)
             /\ stack' = Append(Pop, [Top EXCEPT !.pc = "await",
                                                 !.trace = <<RetriedTx(tx, newCmd)>>])
                            \o <<Frame(newCmd)>>
    /\ UNCHANGED <<ret, input, output>>

\* Every parsed reply ends the activation, 61xx and 6Cxx included.
ReplyFinalAnyStatus ==
    /\ CanTransmit
    /\ \E reply \in Replies :
         LET p == ParseResponseAPDU(reply.raw)
             tx == Transaction(Top.cmd, p.resp)
         IN  /\ ~reply.err
             /\ p.ok
             /\ wire' = Logged(reply)
             /\ ret' = Return(<<tx>>, NoErr)
    /\ stack' = Pop
    /\ UNCHANGED <<input, output>>

\* client.go:100: any other status ends the activation.
ReplyFinal ==
    /\ CanTransmit
    /\ \E reply \in Replies :
         LET p == ParseResponseAPDU(reply.raw)
             tx == Transaction(Top.cmd, p.resp)
         IN  /\ ~reply.err
             /\ p.ok
             /\ SW1(p.resp.Status) \notin {97, 108}
             /\ wire' = Logged(reply)
             /\ ret' = Return(<<tx>>, NoErr)
    /\ stack' = Pop
    /\ UNCHANGED <<input, output>>

\* client.go:76-82 / 91-97: the recursive Send returned.
SubSendReturns ==
    /\ Running
    /\ Top.pc = "await"
    /\ ret.set
    /\ ret' = AfterSubSend(Top.trace, ret)
    /\ stack' = Pop
    /\ UNCHANGED <<wire, input, output>>

NoOutput == [done |-> FALSE]

Init ==
    /\ input \in Commands
    /\ stack = <<Frame(input)>>
    /\ wire = <<>>
    /\ ret = NoRet
    /\ output = NoOutput

Next ==
    \/ TransmitFails
    \/ ReplyTooShort
    \/ Reply61
    \/ Reply6C
    \/ ReplyFinal
    \/ SubSendReturns

Spec == Init /\ [][Next]_vars

\* Send is sequential code: whenever it can take a step it takes it.
FairSpec == Spec /\ WF_vars(Next)


(***************************************************************************)
(* Client.Send: what the wire log says                                     *)
(***************************************************************************)
Exchanges == 1..Len(wire)

\* The i-th Transmit call returned bytes that parse as a response.
Completed(i) == ~wire[i].reply.err /\ ParseResponseAPDU(wire[i].reply.raw).ok

StatusOf(i) == ParseResponseAPDU(wire[i].reply.raw).resp.Status

\* The transaction the i-th exchange amounts to.
WireTx(i) == Transaction(wire[i].apdu, ParseResponseAPDU(wire[i].reply.raw).resp)

Continuing(i) == Completed(i) /\ SW1(StatusOf(i)) \in {97, 108}

\* The frame on top waits for a recursive Send started by a reply with this SW1.
AwaitingAfter(sw1) ==
    /\ Running
    /\ Top.pc = "await"
    /\ SW1(Top.trace[1].Response.Status) = sw1

\* C1 (first half): after a parsed 61xx the very next command transmitted is
\* GET RESPONSE (INS 0xC0) with the answered command's class, chaining flag
\* cleared, P1 = P2 = 0, no data and Ne = SW2.
NextIsGetResponse ==
    \A i \in Exchanges :
        (Completed(i) /\ SW1(StatusOf(i)) = 97 /\ i < Len(wire)) =>
            LET prev == wire[i].apdu
                nxt == wire[i + 1].apdu
            IN  /\ nxt.Instruction.Raw = INS_GET_RESPONSE
                /\ nxt.Class.IsChained = FALSE
                /\ nxt.Class.Channel = prev.Class.Channel
                /\ nxt.Class.SecureMessaging = prev.Class.SecureMessaging
                /\ nxt.Class.IsProprietary = prev.Class.IsProprietary
                /\ nxt.Class.Raw = prev.Class.Raw
                /\ nxt.P1 = 0 /\ nxt.P2 = 0
                /\ nxt.Data = <<>>
                /\ nxt.Ne = SW2(StatusOf(i))

\* C1 (second half): when the Send of that GET RESPONSE returns, every
\* transaction it produced follows the current one in the returned trace.
GetResponseTraceAppended ==
    (AwaitingAfter(97) /\ SubSendReturns) => ret'.trace = Top.trace \o ret.trace

\* C1: a parsed 61xx is followed by GET RESPONSE on the same class, chaining
\* cleared, P1 = P2 = 0, no data, Ne = SW2, and all transactions that GET
\* RESPONSE produces are appended after the current one in the returned trace.
C1_GetResponseChained == []NextIsGetResponse /\ [][GetResponseTraceAppended]_vars

\* C2 (first half): after a parsed 6Cxx the very next command transmitted is
\* the answered command with Ne = SW2 and nothing else changed.
NextIsSameWithNe ==
    \A i \in Exchanges :
        (Completed(i) /\ SW1(StatusOf(i)) = 108 /\ i < Len(wire)) =>
            LET prev == wire[i].apdu
                nxt == wire[i + 1].apdu
            IN  /\ nxt.Class = prev.Class
                /\ nxt.Instruction = prev.Instruction
                /\ nxt.P1 = prev.P1 /\ nxt.P2 = prev.P2
                /\ nxt.Data = prev.Data
                /\ nxt.Ne = SW2(StatusOf(i))

\* C2 (second half): the transactions of the re-issued command follow the
\* current one in the returned trace.
RetryTraceAppended ==
    (AwaitingAfter(108) /\ SubSendReturns) => ret'.trace = Top.trace \o ret.trace

\* C2 (example): 6C 05 then 90 00 with 5 data bytes gives a trace of length 2
\* whose final data length is 5.
WrongLengthScenario ==
    (/\ Done
     /\ Len(wire) = 2
     /\ wire[1].reply = Reply(<<108, 5>>)
     /\ wire[2].reply = Reply(Payload5 \o <<144, 0>>))
    => /\ Len(ret.trace) = 2
       /\ Len(ret.trace[2].Response.Data) = 5

\* C2: a parsed 6Cxx is followed by the same command with Ne = SW2, and the
\* transactions of that command are appended after the current one.
C2_WrongLengthRetried ==
    [](NextIsSameWithNe /\ WrongLengthScenario) /\ [][RetryTraceAppended]_vars

\* The transactions of the exchanges 1..n, in order.
WireTrace(n) == [i \in 1..n |-> WireTx(i)]

\* The last Transmit call failed, or its reply could not be parsed.
LastFailed == wire # <<>> /\ ~Completed(Len(wire))

\* C3: when the k-th exchange fails, Send returns the error together with the
\* k-1 transactions completed before it, in order.
C3_PartialTraceKept ==
    (Done /\ LastFailed) =>
        /\ ret.err # NoErr
        /\ ret.trace = WireTrace(Len(wire) - 1)

\* C4: a Send that returns without error returns one transaction per Transmit
\* call, in call order, each holding the command that was encoded for the
\* call and the parse of the bytes the call returned.
C4_TraceIsWireLog ==
    (Done /\ ret.err = NoErr) =>
        /\ Len(ret.trace) = Len(wire)
        /\ \A i \in Exchanges :
              /\ Completed(i)
              /\ ret.trace[i].Command = wire[i].apdu
              /\ Bytes(ret.trace[i].Command) = wire[i].raw
              /\ ret.trace[i].Response = ParseResponseAPDU(wire[i].reply.raw).resp

\* A successful Send of three or more exchanges that met both 61xx and 6Cxx.
C4_Witness ==
    /\ Done /\ ret.err = NoErr
    /\ Len(wire) >= 3
    /\ \E i, j \in Exchanges :
          /\ Completed(i) /\ SW1(StatusOf(i)) = 97
          /\ Completed(j) /\ SW1(StatusOf(j)) = 108

\* Number of exchanges among the first n answered with 61xx or 6Cxx.
RECURSIVE Continuations(_)
Continuations(n) ==
    IF n = 0 THEN 0
    ELSE (IF Continuing(n) THEN 1 ELSE 0) + Continuations(n - 1)

\* The card's latest answer ends the chain: a failure, or a status whose SW1
\* is neither 0x61 nor 0x6C.
LastEndsChain == wire # <<>> /\ ~Continuing(Len(wire))

\* C6 (only if): Send has returned only if the latest answer ended the chain;
\* a successful return after N continuations carries N+1 transactions; and
\* while every answer so far is 61xx/6Cxx Send has not returned and stands
\* ready to transmit again, one activation deeper per answer.
NoRetryCeiling ==
    /\ Done => LastEndsChain
    /\ (Done /\ ret.err = NoErr) =>
          /\ Continuations(Len(wire)) = Len(wire) - 1
          /\ Len(ret.trace) = Continuations(Len(wire)) + 1
    /\ (wire # <<>> /\ Continuing(Len(wire))) =>
          /\ Running
          /\ Top.pc = "transmit"
          /\ Len(stack) = Len(wire) + 1
          /\ \A i \in Exchanges : Continuing(i)

\* C6: Send returns if and only if the card eventually answers with SW1 outside
\* {0x61, 0x6C} or an exchange fails; N continuations then a terminal status
\* give N+1 transactions; a card that keeps answering 61xx/6Cxx keeps Send
\* from returning.
C6_ReturnsIffChainEnds == []NoRetryCeiling /\ (LastEndsChain ~> Done)

\* A Send that returned successfully after MaxExchanges - 1 continuations.
C6_Witness ==
    /\ Done /\ ret.err = NoErr
    /\ Len(wire) = MaxExchanges
    /\ Continuations(Len(wire)) = MaxExchanges - 1
    /\ Len(ret.trace) = MaxExchanges

(***************************************************************************)
(* Pure operations: an input is drawn, the operation is applied once.      *)
(***************************************************************************)
Idle == stack = <<>> /\ wire = <<>> /\ ret = NoRet

Applied(result) ==
    /\ ~output.done
    /\ output' = result
    /\ UNCHANGED <<stack, wire, ret, input>>

(***************************************************************************)
(* Trace.IsSuccess                                                         *)
(***************************************************************************)
ZeroCommand == NewCommandAPDU(ZeroClass, [Raw |-> 0, IsBERTLV |-> FALSE], 0, 0, <<>>, 0)

\* makeTx of the tests: an empty command answered with status sw.
MakeTx(sw) ==
    Transaction(ZeroCommand, [present |-> TRUE, Data |-> <<>>, Status |-> sw])

\* A transaction without response.
IncompleteTx == Transaction(ZeroCommand, NilResponse)

\* 90 00, 61 10, 6A 82, 6C 05, 62 82.
SampleTransactions ==
    {MakeTx(SW_NO_ERROR), MakeTx(NewStatusWord(97, 16)), MakeTx(NewStatusWord(106, 130)),
     MakeTx(NewStatusWord(108, 5)), MakeTx(NewStatusWord(98, 130)), IncompleteTx}

SampleTraces ==
    UNION {[1..n -> SampleTransactions] : n \in 0..MaxTraceLen}

ApplyTraceIsSuccess ==
    Applied([done |-> TRUE, success |-> TraceIsSuccess(input)])

InitTrace == input \in SampleTraces /\ output = NoOutput /\ Idle

NextTrace == ApplyTraceIsSuccess

SpecTrace == InitTrace /\ [][NextTrace]_vars

\* C5: Trace.IsSuccess is false for the empty trace and otherwise is the
\* IsSuccess of the last transaction alone (false without a response),
\* whatever the earlier transactions are; [61 10, 90 00] succeeds and
\* [90 00, 6A 82] fails.
C5_LastTransactionDecides ==
    output.done =>
        /\ Len(input) = 0 => ~output.success
        /\ Len(input) > 0 =>
              LET resp == input[Len(input)].Response IN
              output.success =
                  (resp.present /\ (resp.Status = 36864 \/ resp.Status \div 256 = 97))
        /\ input = <<MakeTx(NewStatusWord(97, 16)), MakeTx(SW_NO_ERROR)>> => output.success
        /\ input = <<MakeTx(SW_NO_ERROR), MakeTx(NewStatusWord(106, 130))>> => ~output.success

\* A trace that succeeds although an earlier transaction failed.
C5_Witness ==
    /\ output.done
    /\ Len(input) >= 2
    /\ input[1] = MakeTx(NewStatusWord(106, 130))
    /\ output.success

(***************************************************************************)
(* Class round trip: NewClass then Class.Encode                            *)
(***************************************************************************)
AllBytes == 0..255

ApplyClassRoundTrip ==
    LET c == NewClass(input) IN
    Applied([done |-> TRUE, ok |-> c.ok, class |-> c.class, encoded |-> Encode(c.class)])

InitClass == input \in AllBytes /\ output = NoOutput /\ Idle

NextClass == ApplyClassRoundTrip

SpecClass == InitClass /\ [][NextClass]_vars

\* C7: for every byte b other than 0xFF, NewClass(b) succeeds and encoding
\* the decoded class gives back exactly b.
C7_ClassRoundTrip ==
    (output.done /\ input # 255) => (output.ok /\ output.encoded = input)

(***************************************************************************)
(* CommandAPDU.Bytes                                                       *)
(***************************************************************************)
\* Data fields of the lengths around the short/extended limits.
DataOfLen(n) == [i \in 1..n |-> (i * 7) % 256]

DataLengths == {0, 1, 2, 255, 256, 257, 65535}

NeValues == {0, 1, 5, 255, 256, 257, 65535, 65536}

ApduInputs ==
    { NewCommandAPDU(ClassOf(cla), NewInstruction(INS_SELECT), 4, 12, DataOfLen(nc), ne) :
        cla \in {0, 113}, nc \in DataLengths, ne \in NeValues }

ApplyBytes == Applied([done |-> TRUE, bytes |-> Bytes(input)])

InitApdu == input \in ApduInputs /\ output = NoOutput /\ Idle

NextApdu == ApplyBytes

SpecApdu == InitApdu /\ [][NextApdu]_vars

\* C8: Bytes uses extended length iff nc > 255 or Ne > 256 and emits the four
\* header bytes, then (nc > 0) Lc on one byte or as 00 plus two big-endian
\* bytes followed by the data, then (Ne > 0) Le on one byte with 256 written
\* 00, or on two big-endian bytes with 65536 written 0000, preceded by 00
\* only when nc = 0; and nothing else.
C8_BytesLayout ==
    output.done =>
        LET out == output.bytes
            nc == Len(input.Data)
            ne == input.Ne
            ext == nc > 255 \/ ne > 256
            lcLen == IF nc = 0 THEN 0 ELSE IF ext THEN 3 ELSE 1
            leLen == IF ne = 0 THEN 0
                     ELSE IF ~ext THEN 1
                     ELSE IF nc = 0 THEN 3 ELSE 2
            body == 4 + lcLen + nc
        IN  /\ Len(out) = body + leLen
            /\ \A i \in 1..Len(out) : out[i] \in AllBytes
            /\ SubSeq(out, 1, 4) = <<Encode(input.Class), input.Instruction.Raw,
                                      input.P1, input.P2>>
            /\ (nc > 0 /\ ~ext) => out[5] = nc
            /\ (nc > 0 /\ ext) => (out[5] = 0 /\ out[6] * 256 + out[7] = nc)
            /\ SubSeq(out, 4 + lcLen + 1, body) = input.Data
            /\ (ne > 0 /\ ~ext) => out[body + 1] = (IF ne = 256 THEN 0 ELSE ne)
            /\ (ne > 0 /\ ext /\ nc = 0) => out[body + 1] = 0
            /\ (ne > 0 /\ ext) =>
                  out[Len(out) - 1] * 256 + out[Len(out)] = (IF ne = 65536 THEN 0 ELSE ne)

\* An extended command with data and Ne = 65536 has been encoded.
C8_Witness ==
    /\ output.done
    /\ Len(input.Data) = 257
    /\ input.Ne = 65536
    /\ Len(output.bytes) = 4 + 3 + 257 + 2

(***************************************************************************)
(* StatusWord classification                                               *)
(***************************************************************************)
AllStatusWords == 0..65535

ApplyClassify ==
    Applied([done |-> TRUE, success |-> IsSuccess(input),
             warning |-> IsWarning(input), error |-> IsError(input)])

InitStatus == input \in AllStatusWords /\ output = NoOutput /\ Idle

NextStatus == ApplyClassify

SpecStatus == InitStatus /\ [][NextStatus]_vars

\* C9: at most one of IsSuccess, IsWarning, IsError holds; IsSuccess exactly
\* for 0x9000 and SW1 = 0x61, IsWarning exactly for SW1 in {0x62, 0x63},
\* IsError exactly for SW1 in 0x64..0x6F, so 6Cxx is an error and no success.
C9_ClassificationExclusive ==
    output.done =>
        LET sw1 == input \div 256 IN
        /\ ~(output.success /\ output.warning)
        /\ ~(output.success /\ output.error)
        /\ ~(output.warning /\ output.error)
        /\ output.success = (input = 36864 \/ sw1 = 97)
        /\ output.warning = (sw1 \in {98, 99})
        /\ output.error = (sw1 \in 100..111)
        /\ sw1 = 108 => (output.error /\ ~output.success)

\* 6C 05 has been classified as an error.
C9_Witness ==
    /\ output.done
    /\ input = 108 * 256 + 5
    /\ output.error /\ ~output.success /\ ~output.warning

(***************************************************************************)
(* BER-TLV trees (github.com/moov-io/bertlv, the external codec).          *)
(*                                                                         *)
(* A tag is held as the number its bytes spell ("62" is 98, "BF0C" is      *)
(* 48908): comparing the upper-cased hex strings of two tags is comparing  *)
(* these numbers.  A constructed node has children and no value.  Tags of  *)
(* one or two bytes and lengths below 65536 are covered.                   *)
(***************************************************************************)
NewTag(tag, value) == [Tag |-> tag, Value |-> value, TLVs |-> <<>>]
NewComposite(tag, tlvs) == [Tag |-> tag, Value |-> <<>>, TLVs |-> tlvs]

DecodeFailed == [ok |-> FALSE, tlvs |-> <<>>]

\* Tag and length octets at the head of data.
DecodeHeader(data) ==
    LET tlen == IF data[1] % 32 = 31 THEN 2 ELSE 1 IN
    IF Len(data) < tlen + 1 THEN [ok |-> FALSE, tag |-> 0, hlen |-> 0, len |-> 0]
    ELSE LET tag == IF tlen = 1 THEN data[1] ELSE data[1] * 256 + data[2]
             first == data[tlen + 1]
         IN  IF first < 128
             THEN [ok |-> TRUE, tag |-> tag, hlen |-> tlen + 1, len |-> first]
             ELSE IF first = 129 /\ Len(data) >= tlen + 2
             THEN [ok |-> TRUE, tag |-> tag, hlen |-> tlen + 2, len |-> data[tlen + 2]]
             ELSE IF first = 130 /\ Len(data) >= tlen + 3
             THEN [ok |-> TRUE, tag |-> tag, hlen |-> tlen + 3,
                   len |-> data[tlen + 2] * 256 + data[tlen + 3]]
             ELSE [ok |-> FALSE, tag |-> 0, hlen |-> 0, len |-> 0]

\* bertlv.Decode: the sibling nodes encoded in data, or a failure.
RECURSIVE BerDecode(_)
BerDecode(data) ==
    IF data = <<>> THEN [ok |-> TRUE, tlvs |-> <<>>]
    ELSE LET h == DecodeHeader(data) IN
         IF ~h.ok \/ h.hlen + h.len > Len(data) THEN DecodeFailed
         ELSE LET value == SubSeq(data, h.hlen + 1, h.hlen + h.len)
                  constructed == IsSet(data[1], 6)
                  inner == IF constructed THEN BerDecode(value)
                           ELSE [ok |-> TRUE, tlvs |-> <<>>]
                  rest == BerDecode(SubSeq(data, h.hlen + h.len + 1, Len(data)))
              IN  IF ~inner.ok \/ ~rest.ok THEN DecodeFailed
                  ELSE [ok |-> TRUE,
                        tlvs |-> <<IF constructed THEN NewComposite(h.tag, inner.tlvs)
                                   ELSE NewTag(h.tag, value)>> \o rest.tlvs]

TagBytes(tag) == IF tag < 256 THEN <<tag>> ELSE <<tag \div 256, tag % 256>>

LengthBytes(n) ==
    IF n < 128 THEN <<n>>
    ELSE IF n < 256 THEN <<129, n>>
    ELSE <<130, n \div 256, n % 256>>

\* bertlv.Encode: the bytes of a list of sibling nodes.
RECURSIVE BerEncode(_)
BerEncode(tlvs) ==
    IF tlvs = <<>> THEN <<>>
    ELSE LET p == Head(tlvs)
             value == IF Len(p.TLVs) > 0 THEN BerEncode(p.TLVs) ELSE p.Value
         IN  TagBytes(p.Tag) \o LengthBytes(Len(value)) \o value \o BerEncode(Tail(tlvs))

(***************************************************************************)
(* pkg/tlv/parser.go: UnmarshalFromPackets on a schema of []byte fields    *)
(* with a catch-all slot (the FCP and FMD templates).  A schema lists its  *)
(* fields in declaration order; a template value holds the fields and the  *)
(* Unknown slot, present = FALSE standing for a nil pointer.               *)
(***************************************************************************)
Field(name, tag) == [name |-> name, tag |-> tag]

\* fci.go:29-52
FCPSchema ==
    << Field("DataSizeExcludingStruct", 128), Field("TotalFileSize", 129),
       Field("FileDescriptor", 130), Field("FileIdentifier", 131),
       Field("DFName", 132), Field("ProprietaryInfoRaw", 133),
       Field("SecurityAttrProprietary", 134), Field("ExtFileControlInfoID", 135),
       Field("ShortEFIdentifier", 136), Field("LifeCycleStatus", 138),
       Field("SecAttrRefExpanded", 139), Field("SecurityAttrCompact", 140),
       Field("SecEnvTemplateID", 141), Field("ChannelSecurityAttr", 142),
       Field("SecAttrTemplateData", 160), Field("SecAttrTemplateProp", 161),
       Field("OneOrMorePairs", 162), Field("ProprietaryDataBER", 165),
       Field("SecurityAttrExpanded", 171), Field("CryptoMechanismID", 172) >>

\* fci.go:55-62
FMDSchema ==
    << Field("ApplicationIdentifier", 132), Field("ApplicationLabel", 80),
       Field("ProprietaryData53", 83), Field("ProprietaryData73", 115) >>

FieldNames(schema) == {schema[i].name : i \in DOMAIN schema}
SchemaTags(schema) == {schema[i].tag : i \in DOMAIN schema}
TagOf(schema, name) == schema[CHOOSE i \in DOMAIN schema : schema[i].name = name].tag

ZeroTemplate(schema) ==
    [present |-> TRUE, fields |-> [n \in FieldNames(schema) |-> <<>>], Unknown |-> <<>>]

NilTemplate(schema) == [ZeroTemplate(schema) EXCEPT !.present = FALSE]

\* parser.go:333-340
getPacketRawData(p) == IF Len(p.TLVs) > 0 THEN BerEncode(p.TLVs) ELSE p.Value

\* parser.go:243-250 for one field: every packet carrying the field's tag is
\* decoded into the field, in encounter order.
RECURSIVE ScanField(_, _, _, _)
ScanField(packets, tag, idx, cur) ==
    IF idx > Len(packets) THEN cur
    ELSE ScanField(packets, tag, idx + 1,
                   IF packets[idx].Tag = tag THEN getPacketRawData(packets[idx]) ELSE cur)

\* parser.go:248: the indices marked consumed by the scan of all fields.
ConsumedIndices(packets, schema) ==
    {idx \in DOMAIN packets : packets[idx].Tag \in SchemaTags(schema)}

\* The leftovers are collected newest first.
RECURSIVE LeftoversNewestFirst(_, _, _)
LeftoversNewestFirst(packets, consumed, idx) ==
    IF idx > Len(packets) THEN <<>>
    ELSE LeftoversNewestFirst(packets, consumed, idx + 1)
             \o (IF idx \in consumed THEN <<>> ELSE <<packets[idx]>>)

\* parser.go:310-315
RECURSIVE Leftovers(_, _, _)
Leftovers(packets, consumed, idx) ==
    IF idx > Len(packets) THEN <<>>
    ELSE (IF idx \in consumed THEN <<>> ELSE <<packets[idx]>>)
             \o Leftovers(packets, consumed, idx + 1)

\* parser.go:304-321
handleUnknownFields(target, packets, consumed) ==
    LET leftovers == Leftovers(packets, consumed, 1) IN
    IF Len(leftovers) > 0 THEN [target EXCEPT !.Unknown = leftovers] ELSE target

\* parser.go:221-254 (no field of these schemas can fail to decode).
UnmarshalFromPackets(packets, schema, target) ==
    LET filled ==
            [target EXCEPT !.fields =
                [n \in FieldNames(schema) |->
                    ScanField(packets, TagOf(schema, n), 1, target.fields[n])]]
    IN  handleUnknownFields(filled, packets, ConsumedIndices(packets, schema))

(***************************************************************************)
(* pkg/iso7816/fci.go: ParseSelectData                                     *)
(***************************************************************************)
TAG_FCP == 98     \* "62"
TAG_FMD == 100    \* "64"
TAG_FCI == 111    \* "6F"

ErrDecode == "BER-TLV decode failed"
ErrMandatoryTag(tag) ==
    IF tag = TAG_FCP THEN "mandatory tag '62' not found" ELSE "mandatory tag '64' not found"

\* Index of the first packet carrying tag, 0 when there is none.
FirstWithTag(packets, tag) ==
    IF \E i \in DOMAIN packets : packets[i].Tag = tag
    THEN CHOOSE i \in DOMAIN packets :
            /\ packets[i].Tag = tag
            /\ \A j \in 1..(i - 1) : packets[j].Tag # tag
    ELSE 0

\* fci.go:178-188
unmarshalIfTagExists(packets, tag, schema, target) ==
    LET i == FirstWithTag(packets, tag) IN
    IF i = 0 THEN [found |-> FALSE, target |-> target]
    ELSE [found |-> TRUE, target |-> UnmarshalFromPackets(packets[i].TLVs, schema, target)]

\* The mandatory template is never reported missing.
MandatoryErrIgnored(found, requiredTag) == NoErr

\* fci.go:172-175
MandatoryErr(found, requiredTag) == IF ~found THEN ErrMandatoryTag(requiredTag) ELSE NoErr

\* fci.go:171-176
handleMandatoryTemplate(packets, requiredTag, schema, target) ==
    LET r == unmarshalIfTagExists(packets, requiredTag, schema, target) IN
    [err |-> MandatoryErr(r.found, requiredTag), target |-> r.target]

NilFCI ==
    [isNil |-> TRUE, FCP |-> NilTemplate(FCPSchema), FMD |-> NilTemplate(FMDSchema),
     Unknown |-> <<>>, ProprietaryRawData |-> <<>>]

\* fci.go:117-120
FreshFCI ==
    [isNil |-> FALSE, FCP |-> ZeroTemplate(FCPSchema), FMD |-> ZeroTemplate(FMDSchema),
     Unknown |-> <<>>, ProprietaryRawData |-> <<>>]

\* fci.go:133-140
WorkingPackets(packets) ==
    LET i == FirstWithTag(packets, TAG_FCI) IN
    IF i = 0 THEN packets ELSE packets[i].TLVs

\* The siblings of the 62 / 64 templates are kept in the outer Unknown list.
ParseFCIGenericSiblingsKept(packets, fci) ==
    LET workingPackets == WorkingPackets(packets)
        fcp == unmarshalIfTagExists(workingPackets, TAG_FCP, FCPSchema, fci.FCP)
        fmd == unmarshalIfTagExists(workingPackets, TAG_FMD, FMDSchema, fci.FMD)
    IN  IF ~fcp.found /\ ~fmd.found
        THEN LET flatFCP == UnmarshalFromPackets(workingPackets, FCPSchema, fcp.target)
                 remainingUnknowns == flatFCP.Unknown
                 flatFMD == UnmarshalFromPackets(remainingUnknowns, FMDSchema, fmd.target)
                 finalUnknowns == flatFMD.Unknown
             IN  [fci EXCEPT !.FCP = [flatFCP EXCEPT !.Unknown = <<>>],
                             !.FMD = [flatFMD EXCEPT !.Unknown = <<>>],
                             !.Unknown = finalUnknowns]
        ELSE [fci EXCEPT !.FCP = fcp.target, !.FMD = fmd.target,
                         !.Unknown = SelectSeq(workingPackets,
                                        LAMBDA p : p.Tag \notin {TAG_FCP, TAG_FMD})]

\* The FMD schema is mapped on the whole working set instead of the FCP
\* leftovers.
ParseFCIGenericNoHandOver(packets, fci) ==
    LET workingPackets == WorkingPackets(packets)
        fcp == unmarshalIfTagExists(workingPackets, TAG_FCP, FCPSchema, fci.FCP)
        fmd == unmarshalIfTagExists(workingPackets, TAG_FMD, FMDSchema, fci.FMD)
    IN  IF ~fcp.found /\ ~fmd.found
        THEN LET flatFCP == UnmarshalFromPackets(workingPackets, FCPSchema, fcp.target)
                 flatFMD == UnmarshalFromPackets(workingPackets, FMDSchema, fmd.target)
             IN  [fci EXCEPT !.FCP = [flatFCP EXCEPT !.Unknown = <<>>],
                             !.FMD = [flatFMD EXCEPT !.Unknown = <<>>],
                             !.Unknown = flatFMD.Unknown]
        ELSE [fci EXCEPT !.FCP = fcp.target, !.FMD = fmd.target]

\* fci.go:131-164
ParseFCIGeneric(packets, fci) ==
    LET workingPackets == WorkingPackets(packets)
        fcp == unmarshalIfTagExists(workingPackets, TAG_FCP, FCPSchema, fci.FCP)
        fmd == unmarshalIfTagExists(workingPackets, TAG_FMD, FMDSchema, fci.FMD)
    IN  IF ~fcp.found /\ ~fmd.found
        THEN LET flatFCP == UnmarshalFromPackets(workingPackets, FCPSchema, fcp.target)
                 remainingUnknowns == flatFCP.Unknown
                 flatFMD == UnmarshalFromPackets(remainingUnknowns, FMDSchema, fmd.target)
                 finalUnknowns == flatFMD.Unknown
             IN  [fci EXCEPT !.FCP = [flatFCP EXCEPT !.Unknown = <<>>],
                             !.FMD = [flatFMD EXCEPT !.Unknown = <<>>],
                             !.Unknown = finalUnknowns]
        ELSE [fci EXCEPT !.FCP = fcp.target, !.FMD = fmd.target]

\* A first byte of exactly 0xC0 is not taken for proprietary data.
ParseSelectDataAboveC0(data, p2) ==
    IF Len(data) = 0 THEN [fci |-> NilFCI, err |-> NoErr]
    ELSE IF data[1] > 192
    THEN [fci |-> [NilFCI EXCEPT !.isNil = FALSE, !.ProprietaryRawData = data],
          err |-> NoErr]
    ELSE LET dec == BerDecode(data) IN
         IF ~dec.ok THEN [fci |-> NilFCI, err |-> ErrDecode]
         ELSE LET packets == dec.tlvs
                  fci == FreshFCI
                  control == GetRange(p2, 4, 3)
              IN  IF control = 1
                  THEN LET r == handleMandatoryTemplate(packets, TAG_FCP, FCPSchema, fci.FCP)
                       IN  [fci |-> [fci EXCEPT !.FCP = r.target], err |-> r.err]
                  ELSE IF control = 2
                  THEN LET r == handleMandatoryTemplate(packets, TAG_FMD, FMDSchema, fci.FMD)
                       IN  [fci |-> [fci EXCEPT !.FMD = r.target], err |-> r.err]
                  ELSE IF control = 0
                  THEN [fci |-> ParseFCIGeneric(packets, fci), err |-> NoErr]
                  ELSE [fci |-> NilFCI, err |-> NoErr]

\* fci.go:103-169: the pair (*FileControlInfo, error).
ParseSelectData(data, p2) ==
    IF Len(data) = 0 THEN [fci |-> NilFCI, err |-> NoErr]
    ELSE IF data[1] >= 192
    THEN [fci |-> [NilFCI EXCEPT !.isNil = FALSE, !.ProprietaryRawData = data],
          err |-> NoErr]
    ELSE LET dec == BerDecode(data) IN
         IF ~dec.ok THEN [fci |-> NilFCI, err |-> ErrDecode]
         ELSE LET packets == dec.tlvs
                  fci == FreshFCI
                  control == GetRange(p2, 4, 3)
              IN  IF control = 1
                  THEN LET r == handleMandatoryTemplate(packets, TAG_FCP, FCPSchema, fci.FCP)
                       IN  [fci |-> [fci EXCEPT !.FCP = r.target], err |-> r.err]
                  ELSE IF control = 2
                  THEN LET r == handleMandatoryTemplate(packets, TAG_FMD, FMDSchema, fci.FMD)
                       IN  [fci |-> [fci EXCEPT !.FMD = r.target], err |-> r.err]
                  ELSE IF control = 0
                  THEN [fci |-> ParseFCIGeneric(packets, fci), err |-> NoErr]
                  ELSE [fci |-> NilFCI, err |-> NoErr]

(***************************************************************************)
(* SELECT payloads and P2 values given to ParseSelectData                  *)
(***************************************************************************)
AID == <<160, 0, 0, 0, 1>>
DFName84 == NewTag(132, AID)
OtherName84 == NewTag(132, <<49, 80>>)
Descriptor82 == NewTag(130, <<56>>)
Label50 == NewTag(80, <<84, 69, 83>>)
Unknown99 == NewTag(153, <<202, 254>>)
PropA5 == NewComposite(165, <<NewTag(136, <<1>>)>>)

SelectTrees ==
    { <<NewComposite(TAG_FCP, <<DFName84>>)>>,
      <<NewComposite(TAG_FCP, <<Descriptor82, DFName84, Unknown99, PropA5>>)>>,
      <<NewComposite(TAG_FCP, <<DFName84, Unknown99, OtherName84>>)>>,
      <<NewComposite(TAG_FCP, <<>>)>>,
      <<NewComposite(TAG_FMD, <<Label50>>)>>,
      <<NewComposite(TAG_FMD, <<Label50, DFName84, Unknown99>>)>>,
      <<NewComposite(TAG_FMD, <<Label50>>), NewComposite(TAG_FCP, <<Descriptor82>>)>>,
      <<Unknown99, NewComposite(TAG_FCP, <<DFName84>>), NewComposite(TAG_FCP, <<Descriptor82>>)>>,
      <<NewComposite(TAG_FCI, <<NewComposite(TAG_FCP, <<DFName84>>)>>)>>,
      <<NewComposite(TAG_FCI, <<NewComposite(TAG_FMD, <<Label50>>)>>)>>,
      <<NewComposite(TAG_FCI, <<NewComposite(TAG_FCP, <<DFName84, Unknown99>>),
                                NewComposite(TAG_FMD, <<Label50>>), Descriptor82>>)>>,
      <<NewComposite(TAG_FCI, <<DFName84, PropA5>>)>>,
      <<Descriptor82, Label50, Unknown99>>,
      <<Unknown99, Descriptor82, Unknown99>>,
      <<Descriptor82, NewTag(130, <<57>>), Label50>>,
      <<NewComposite(TAG_FCI, <<Label50, Unknown99, DFName84, NewTag(57089, <<187>>)>>)>> }

SelectPayloads ==
    {BerEncode(t) : t \in SelectTrees}
        \cup { <<>>,                      \* no data
               <<192, 1, 255>>,           \* C0 01 FF, proprietary
               <<223, 32, 1, 0>>,         \* DF 20 01 00
               <<98, 7, 132, 5, 160>>,    \* 62 07 84 05 A0, truncated
               <<132>> }                  \* 84, no length

\* Selection controls FCI, FCP, FMD and no data, alone and with "next
\* occurrence" (bits 2-1 = 10) set as well.
SelectP2s == {0, 4, 8, 12, 2, 6, 10, 14}

ApplyParseSelectData ==
    LET r == ParseSelectData(input.data, input.p2) IN
    Applied([done |-> TRUE, fci |-> r.fci, err |-> r.err])

InitSelect ==
    /\ input \in [data : SelectPayloads, p2 : SelectP2s]
    /\ output = NoOutput
    /\ Idle

NextSelect == ApplyParseSelectData

SpecSelect == InitSelect /\ [][NextSelect]_vars

DecodedSelect == BerDecode(input.data)
SelectControl == GetRange(input.p2, 4, 3)

\* The payload is neither empty nor proprietary and decodes as BER-TLV.
PayloadDecoded == Len(input.data) > 0 /\ input.data[1] < 192 /\ DecodedSelect.ok

HasTag(packets, tag) == \E i \in DOMAIN packets : packets[i].Tag = tag

LastIndexWithTag(packets, tag) ==
    CHOOSE i \in DOMAIN packets :
        /\ packets[i].Tag = tag
        /\ \A j \in (i + 1)..Len(packets) : packets[j].Tag # tag

\* template holds children mapped on schema: each field the data of the
\* (last) child carrying its tag, the other children in the catch-all slot.
MappedOnto(template, schema, children) ==
    /\ template.present
    /\ \A k \in DOMAIN schema :
          template.fields[schema[k].name] =
              IF HasTag(children, schema[k].tag)
              THEN getPacketRawData(children[LastIndexWithTag(children, schema[k].tag)])
              ELSE <<>>
    /\ template.Unknown = SelectSeq(children, LAMBDA p : p.Tag \notin SchemaTags(schema))

MandatoryTemplateHandled(control, tag, schema, template) ==
    (output.done /\ PayloadDecoded /\ SelectControl = control) =>
        LET top == DecodedSelect.tlvs IN
        IF ~HasTag(top, tag)
        THEN output.err = ErrMandatoryTag(tag)
        ELSE /\ output.err = NoErr
             /\ ~output.fci.isNil
             /\ MappedOnto(template, schema, top[FirstWithTag(top, tag)].TLVs)

\* C10: with control "FCP mandatory" (P2 bits 4-3 = 01) ParseSelectData fails
\* with the mandatory-tag-missing error for 62 whenever the decoded payload
\* has no top-level node tagged 62, and otherwise returns no error and the
\* children of the (first) 62 node mapped onto the FCP template; the same
\* with control "FMD mandatory" (10), tag 64 and the FMD template.
C10_MandatoryTemplate ==
    /\ MandatoryTemplateHandled(1, TAG_FCP, FCPSchema, output.fci.FCP)
    /\ MandatoryTemplateHandled(2, TAG_FMD, FMDSchema, output.fci.FMD)

\* FCP-mandatory control against a payload wrapped only in 64.
C10_Witness ==
    /\ output.done
    /\ input.p2 = 4
    /\ input.data = BerEncode(<<NewComposite(TAG_FMD, <<Label50>>)>>)
    /\ output.err = ErrMandatoryTag(TAG_FCP)

(***************************************************************************)
(* FCI-generic control on a flat working set                               *)
(***************************************************************************)
SelectWorkingSet == WorkingPackets(DecodedSelect.tlvs)

\* ParseSelectData ran with control FCI on a decoded payload whose working
\* set holds neither a 62 nor a 64 node.
FlatMode ==
    /\ output.done
    /\ PayloadDecoded
    /\ SelectControl = 0
    /\ ~HasTag(SelectWorkingSet, TAG_FCP)
    /\ ~HasTag(SelectWorkingSet, TAG_FMD)

NameOf(schema, tag) == schema[CHOOSE i \in DOMAIN schema : schema[i].tag = tag].name

\* The field of tag in template holds the data of a node of packets with tag.
HeldByField(template, schema, packets, tag) ==
    \E i \in DOMAIN packets :
        /\ packets[i].Tag = tag
        /\ template.fields[NameOf(schema, tag)] = getPacketRawData(packets[i])

\* Number of entries of list equal to node.
Occurrences(list, node) == Cardinality({i \in DOMAIN list : list[i] = node})

MaxSiblings == 3

ItemSchema == <<Field("ID", 79), Field("Name", 80)>>
ContainerSchema == <<Field("AID", 132), Field("Items", 97)>>

ZeroContainer == [AID |-> <<>>, Items |-> <<>>, Unknown |-> <<>>]

ErrNestedDecode == "bertlv decode failed"

\* parser.go:293-299 for a new Item: the children of the packet, or its
\* value decoded, mapped on the Item schema (which has no catch-all slot).
decodeItem(packet) ==
    LET dec == IF Len(packet.TLVs) > 0
               THEN [ok |-> TRUE, tlvs |-> packet.TLVs]
               ELSE BerDecode(packet.Value)
    IN  [ok |-> dec.ok,
         item |-> [n \in FieldNames(ItemSchema) |->
                      ScanField(dec.tlvs, TagOf(ItemSchema, n), 1, <<>>)]]

\* Only the newest element is kept.
RECURSIVE ScanRepeatedKeepsLast(_, _, _, _)
ScanRepeatedKeepsLast(packets, tag, idx, cur) ==
    IF idx > Len(packets) THEN cur
    ELSE IF packets[idx].Tag # tag THEN ScanRepeatedKeepsLast(packets, tag, idx + 1, cur)
    ELSE LET r == decodeItem(packets[idx]) IN
         IF ~r.ok THEN [ok |-> FALSE, items |-> cur.items]
         ELSE ScanRepeatedKeepsLast(packets, tag, idx + 1,
                                    [ok |-> TRUE, items |-> <<r.item>>])

\* parser.go:242-251 with 257-266 for the repeated field: each packet
\* carrying the tag is decoded into a new element, which is appended; the
\* first element that fails to decode ends the scan.
RECURSIVE ScanRepeated(_, _, _, _)
ScanRepeated(packets, tag, idx, cur) ==
    IF idx > Len(packets) THEN cur
    ELSE IF packets[idx].Tag # tag THEN ScanRepeated(packets, tag, idx + 1, cur)
    ELSE LET r == decodeItem(packets[idx]) IN
         IF ~r.ok THEN [ok |-> FALSE, items |-> cur.items]
         ELSE ScanRepeated(packets, tag, idx + 1,
                           [ok |-> TRUE, items |-> Append(cur.items, r.item)])

\* parser.go:221-254 on a Container: the fields in declaration order, then
\* the catch-all slot; an element that fails to decode returns the error
\* at once.
UnmarshalContainer(packets, target) ==
    LET aid == ScanField(packets, TagOf(ContainerSchema, "AID"), 1, target.AID)
        items == ScanRepeated(packets, TagOf(ContainerSchema, "Items"), 1,
                              [ok |-> TRUE, items |-> target.Items])
        filled == [target EXCEPT !.AID = aid, !.Items = items.items]
    IN  IF ~items.ok
        THEN [err |-> ErrNestedDecode, target |-> filled]
        ELSE [err |-> NoErr,
              target |-> handleUnknownFields(filled, packets,
                                             ConsumedIndices(packets, ContainerSchema))]

Item4F(id) == NewComposite(97, <<NewTag(79, id)>>)

SiblingNodes ==
    { NewTag(132, <<17, 34>>),                                      \* 84 02 1122
      NewTag(132, <<51>>),                                          \* 84 01 33
      Item4F(<<1, 2, 3>>),                                          \* 61 05 4F 03 010203
      NewComposite(97, <<NewTag(79, <<4, 5, 6>>), NewTag(80, <<65>>)>>),
      NewTag(153, <<202, 254>>),                                    \* 99 02 CAFE
      NewTag(57089, <<187>>),                                       \* DF01 01 BB
      NewTag(97, <<79>>) }             \* a packet "61" whose value is no BER-TLV

SiblingLists == UNION {[1..n -> SiblingNodes] : n \in 0..MaxSiblings}

ApplyUnmarshal ==
    LET r == UnmarshalContainer(input, ZeroContainer) IN
    Applied([done |-> TRUE, err |-> r.err, target |-> r.target])

InitUnmarshal == input \in SiblingLists /\ output = NoOutput /\ Idle

NextUnmarshal == ApplyUnmarshal

SpecUnmarshal == InitUnmarshal /\ [][NextUnmarshal]_vars

\* The positions of packets carrying tag, in increasing order.
RECURSIVE IndicesWithTag(_, _, _)
IndicesWithTag(packets, tag, idx) ==
    IF idx > Len(packets) THEN <<>>
    ELSE (IF packets[idx].Tag = tag THEN <<idx>> ELSE <<>>)
             \o IndicesWithTag(packets, tag, idx + 1)

Unmarshalled == output.done /\ output.err = NoErr

\* C12: after UnmarshalFromPackets on a schema with a catch-all slot, every
\* sibling whose tag matches a schema field is consumed by that field and is
\* not in the catch-all, every other sibling is in the catch-all exactly as
\* often as among the siblings, and the catch-all lists them in the order of
\* the siblings.
C12_CatchAllPartition ==
    Unmarshalled =>
        LET tags == SchemaTags(ContainerSchema)
            tgt == output.target
        IN  /\ \A i \in DOMAIN input :
                  IF input[i].Tag \in tags
                  THEN Occurrences(tgt.Unknown, input[i]) = 0
                  ELSE Occurrences(tgt.Unknown, input[i]) = Occurrences(input, input[i])
            /\ HasTag(input, 132) =>
                  \E i \in DOMAIN input :
                      input[i].Tag = 132 /\ tgt.AID = getPacketRawData(input[i])
            /\ Len(tgt.Items) = Len(IndicesWithTag(input, 97, 1))
            /\ tgt.Unknown = SelectSeq(input, LAMBDA p : p.Tag \notin tags)

\* 99, 84, DF01: the 84 node is consumed, 99 and DF01 are kept in order.
C12_Witness ==
    /\ Unmarshalled
    /\ input = <<NewTag(153, <<202, 254>>), NewTag(132, <<17, 34>>), NewTag(57089, <<187>>)>>
    /\ output.target.AID = <<17, 34>>
    /\ output.target.Unknown = <<NewTag(153, <<202, 254>>), NewTag(57089, <<187>>)>>

\* The Item a sibling tagged 61 stands for.
ItemOf(packet) ==
    [n \in FieldNames(ItemSchema) |->
        IF HasTag(packet.TLVs, TagOf(ItemSchema, n))
        THEN getPacketRawData(
                 packet.TLVs[LastIndexWithTag(packet.TLVs, TagOf(ItemSchema, n))])
        ELSE <<>>]

\* C13: n siblings carrying the tag of the repeated field give exactly n
\* entries, the k-th entry mapped from the k-th such sibling.
C13_RepeatedAppended ==
    Unmarshalled =>
        LET at == IndicesWithTag(input, 97, 1) IN
        /\ Len(output.target.Items) = Len(at)
        /\ \A k \in DOMAIN at : output.target.Items[k] = ItemOf(input[at[k]])

\* Two siblings tagged 61 give two items, first then second.
C13_Witness ==
    /\ Unmarshalled
    /\ input = <<Item4F(<<1, 2, 3>>),
                 NewComposite(97, <<NewTag(79, <<4, 5, 6>>), NewTag(80, <<65>>)>>)>>
    /\ Len(output.target.Items) = 2
    /\ output.target.Items[1].ID = <<1, 2, 3>>
    /\ output.target.Items[2].ID = <<4, 5, 6>>

\* C14: when several siblings carry the tag of the singular field, the field
\* holds the value of the first of them and the later ones are in the
\* catch-all.
C14_FirstMatchWins ==
    (Unmarshalled /\ HasTag(input, 132)) =>
        LET at == IndicesWithTag(input, 132, 1) IN
        /\ output.target.AID = getPacketRawData(input[at[1]])
        /\ \A k \in 2..Len(at) : Occurrences(output.target.Unknown, input[at[k]]) > 0

(***************************************************************************)
(* ParseResponseAPDU on raw replies                                        *)
(***************************************************************************)
MaxRawLen == 4

RawBytes == {0, 97, 144, 255}

RawReplies == UNION {[1..n -> RawBytes] : n \in 0..MaxRawLen}

ApplyParseResponseAPDU ==
    LET r == ParseResponseAPDU(input) IN
    Applied([done |-> TRUE, ok |-> r.ok, resp |-> r.resp])

InitResponse == input \in RawReplies /\ output = NoOutput /\ Idle

NextResponse == ApplyParseResponseAPDU

SpecResponse == InitResponse /\ [][NextResponse]_vars

\* C15: ParseResponseAPDU fails iff the raw reply has fewer than 2 bytes;
\* otherwise SW1 and SW2 of the status are the last two bytes and the data
\* followed by SW1 SW2 is the raw reply.
C15_ResponseSplit ==
    output.done =>
        /\ output.ok = (Len(input) >= 2)
        /\ ~output.ok => ~output.resp.present
        /\ output.ok =>
              /\ output.resp.present
              /\ SW1(output.resp.Status) = input[Len(input) - 1]
              /\ SW2(output.resp.Status) = input[Len(input)]
              /\ output.resp.Data \o <<SW1(output.resp.Status), SW2(output.resp.Status)>>
                     = input

\* 00 FF 61 90: data 00 FF, status 6190.
C15_Witness ==
    /\ output.done
    /\ input = <<0, 255, 97, 144>>
    /\ output.ok
    /\ output.resp.Data = <<0, 255>>
    /\ output.resp.Status = 97 * 256 + 144

(***************************************************************************)
(* NewInterindustryClass                                                   *)
(***************************************************************************)
ErrChannelOutOfRange == "channel out of range (max 19)"
ErrSMNotSupported == "SM indicator not supported for further interindustry range (ch 4-19)"

\* The secure messaging of channels 4 to 19 is not validated.
NewInterindustryClassAnySM(isChained, sm, channel) ==
    IF channel > 19
    THEN [ok |-> FALSE, class |-> ZeroClass, err |-> ErrChannelOutOfRange]
    ELSE LET c == [Raw |-> 0, IsProprietary |-> FALSE, IsChained |-> isChained,
                   SecureMessaging |-> sm, Channel |-> channel]
         IN  [ok |-> TRUE, class |-> [c EXCEPT !.Raw = Encode(c)], err |-> NoErr]

\* class.go:91-116
NewInterindustryClass(isChained, sm, channel) ==
    IF channel > 19
    THEN [ok |-> FALSE, class |-> ZeroClass, err |-> ErrChannelOutOfRange]
    ELSE IF channel >= 4 /\ (sm = SMProprietary \/ sm = SMHeaderAuth)
    THEN [ok |-> FALSE, class |-> ZeroClass, err |-> ErrSMNotSupported]
    ELSE LET c == [Raw |-> 0, IsProprietary |-> FALSE, IsChained |-> isChained,
                   SecureMessaging |-> sm, Channel |-> channel]
         IN  [ok |-> TRUE, class |-> [c EXCEPT !.Raw = Encode(c)], err |-> NoErr]

\* The four defined values of SecureMessaging and two undefined ones.
SMValues == 0..5

\* channel is a uint8.
Channels == 0..255

ApplyNewInterindustryClass ==
    LET r == NewInterindustryClass(input.isChained, input.sm, input.channel) IN
    Applied([done |-> TRUE, ok |-> r.ok, class |-> r.class, err |-> r.err,
             decoded |-> NewClass(r.class.Raw)])

InitInterindustry ==
    /\ input \in [isChained : BOOLEAN, sm : SMValues, channel : Channels]
    /\ output = NoOutput
    /\ Idle

NextInterindustry == ApplyNewInterindustryClass

SpecInterindustry == InitInterindustry /\ [][NextInterindustry]_vars

DefinedSM == {SMNone, SMProprietary, SMHeaderNoProc, SMHeaderAuth}

\* C16: for sm among the four defined values, NewInterindustryClass fails
\* iff channel > 19, or channel >= 4 with sm Proprietary or HeaderAuth; in
\* every other case NewClass of the returned Raw byte succeeds and gives a
\* non-proprietary class with the same chained flag, secure messaging and
\* channel.
C16_InterindustryRoundTrip ==
    (output.done /\ input.sm \in DefinedSM) =>
        /\ ~output.ok =
              \/ input.channel > 19
              \/ input.channel >= 4 /\ input.sm \in {SMProprietary, SMHeaderAuth}
        /\ output.ok =>
              /\ output.decoded.ok
              /\ ~output.decoded.class.IsProprietary
              /\ output.decoded.class.Raw = output.class.Raw
              /\ output.decoded.class.IsChained = input.isChained
              /\ output.decoded.class.SecureMessaging = input.sm
              /\ output.decoded.class.Channel = input.channel

\* Chained, ISO secure messaging, channel 19: CLA 0x7F.
C16_Witness ==
    /\ output.done
    /\ input = [isChained |-> TRUE, sm |-> SMHeaderNoProc, channel |-> 19]
    /\ output.ok
    /\ output.class.Raw = 127
    /\ output.decoded.class.Channel = 19

\* C17: with control "no data" (P2 bits 4-3 = 11) ParseSelectData returns the
\* empty result (no FileControlInfo, no error) for every payload.
C17_NoDataEmpty ==
    (output.done /\ SelectControl = 3) => (output.fci.isNil /\ output.err = NoErr)

\* C18: for a non-empty payload whose first byte is >= 0xC0 ParseSelectData
\* returns no error and a result whose ProprietaryRawData is the whole
\* payload, with FCP and FMD absent; for a payload whose first byte is below
\* 0xC0 ProprietaryRawData is never set.
C18_ProprietaryThreshold ==
    (output.done /\ Len(input.data) > 0) =>
        IF input.data[1] >= 192
        THEN /\ output.err = NoErr
             /\ ~output.fci.isNil
             /\ output.fci.ProprietaryRawData = input.data
             /\ ~output.fci.FCP.present
             /\ ~output.fci.FMD.present
             /\ output.fci.Unknown = <<>>
        ELSE output.fci.ProprietaryRawData = <<>>

\* C0 01 FF with control FCP.
C18_Witness ==
    /\ output.done
    /\ input = [data |-> <<192, 1, 255>>, p2 |-> 4]
    /\ output.err = NoErr
    /\ output.fci.ProprietaryRawData = <<192, 1, 255>>
    /\ ~output.fci.FCP.present

(***************************************************************************)
(* pkg/iso7816/select_result.go: NewSelectResult and SelectResult.FCI      *)
(***************************************************************************)
ErrEmptyTrace == "cannot create result from empty trace"
ErrNotSelect == "trace must start with SELECT command"
ErrSelectionFailed == "selection failed, cannot parse FCI"
ErrNoResponseData == "no response data found"

\* select_result.go:27-37: the error, NoErr when the SelectResult is made.
NewSelectResult(t) ==
    IF Len(t) = 0 THEN ErrEmptyTrace
    ELSE IF t[1].Command.Instruction.Raw # INS_SELECT THEN ErrNotSelect
    ELSE NoErr

\* The payload is interpreted with P2 of the last command.
SelectResultFCIWithLastP2(t) ==
    IF ~TraceIsSuccess(t) THEN [fci |-> NilFCI, err |-> ErrSelectionFailed]
    ELSE LET lastTx == Last(t) IN
         IF lastTx = 0 \/ Len(t[lastTx].Response.Data) = 0
         THEN [fci |-> NilFCI, err |-> ErrNoResponseData]
         ELSE ParseSelectData(t[lastTx].Response.Data, t[lastTx].Command.P2)

\* select_result.go:42-54
SelectResultFCI(t) ==
    IF ~TraceIsSuccess(t) THEN [fci |-> NilFCI, err |-> ErrSelectionFailed]
    ELSE LET lastTx == Last(t) IN
         IF lastTx = 0 \/ Len(t[lastTx].Response.Data) = 0
         THEN [fci |-> NilFCI, err |-> ErrNoResponseData]
         ELSE LET initialP2 == t[1].Command.P2 IN
              ParseSelectData(t[lastTx].Response.Data, initialP2)

SelectCmd(p2) ==
    NewCommandAPDU(ClassOf(0), NewInstruction(INS_SELECT), 4, p2, <<49, 80>>, 0)

Response(data, status) == [present |-> TRUE, Data |-> data, Status |-> status]

FCIWrappedIn6F == BerEncode(<<NewComposite(TAG_FCI, <<DFName84, PropA5>>)>>)
FCPWrappedIn62 == BerEncode(<<NewComposite(TAG_FCP, <<DFName84>>)>>)
FMDWrappedIn64 == BerEncode(<<NewComposite(TAG_FMD, <<Label50>>)>>)

\* 90 00, 61 10, 62 83, 6A 82 with each payload, and no response at all.
FinalResponses ==
    {Response(data, status) :
        data \in {<<>>, FCIWrappedIn6F, FCPWrappedIn62, FMDWrappedIn64,
                  <<192, 1, 255>>, <<132>>},
        status \in {SW_NO_ERROR, NewStatusWord(97, 16), NewStatusWord(98, 131),
                    NewStatusWord(106, 130)}}
        \cup {NilResponse}

\* What answers the SELECT when a GET RESPONSE follows: 61 2B, or a payload
\* of its own.
FirstResponses ==
    {Response(<<>>, NewStatusWord(97, 43)), Response(FMDWrappedIn64, NewStatusWord(97, 43))}

SelectTraces ==
    {<<Transaction(SelectCmd(p2), r)>> : p2 \in {0, 4, 8, 12}, r \in FinalResponses}
        \cup UNION {{<<Transaction(SelectCmd(p2), f),
                       Transaction(GetResponseCmd(SelectCmd(p2), SW2(f.Status)), r)>> :
                         r \in FinalResponses} :
                     p2 \in {0, 4, 8, 12}, f \in FirstResponses}
        \cup { <<>>,
               <<Transaction(GetResponseCmd(SelectCmd(0), 43),
                             Response(FCIWrappedIn6F, SW_NO_ERROR))>> }

\* NewSelectResult on the trace, then FCI on the result.
ApplySelectResultFCI ==
    LET created == NewSelectResult(input) IN
    IF created # NoErr
    THEN Applied([done |-> TRUE, created |-> FALSE, fci |-> NilFCI, err |-> created])
    ELSE LET r == SelectResultFCI(input) IN
         Applied([done |-> TRUE, created |-> TRUE, fci |-> r.fci, err |-> r.err])

InitFCI == input \in SelectTraces /\ output = NoOutput /\ Idle

NextFCI == ApplySelectResultFCI

SpecFCI == InitFCI /\ [][NextFCI]_vars

\* C19: SelectResult.FCI returns an error (and no result) when the last
\* transaction of the trace is not successful or its response data is empty;
\* otherwise its result is the data of the last transaction interpreted by
\* ParseSelectData with P2 of the first transaction's command.
C19_FCIFromLastWithFirstP2 ==
    (output.done /\ output.created) =>
        LET last == input[Len(input)]
            first == input[1]
        IN  IF ~TransactionIsSuccess(last) \/ last.Response.Data = <<>>
            THEN output.err # NoErr /\ output.fci.isNil
            ELSE LET r == ParseSelectData(last.Response.Data, first.Command.P2) IN
                 output.fci = r.fci /\ output.err = r.err

\* SELECT answered 61 2B, GET RESPONSE answered 90 00 with the FCI: the DF
\* name is recovered from the payload of the GET RESPONSE.
C19_Witness ==
    /\ output.done /\ output.created
    /\ Len(input) = 2
    /\ input[1].Command.P2 = 0
    /\ input[1].Response = Response(<<>>, NewStatusWord(97, 43))
    /\ input[2].Command.Instruction.Raw = INS_GET_RESPONSE
    /\ input[2].Response = Response(FCIWrappedIn6F, SW_NO_ERROR)
    /\ output.err = NoErr
    /\ output.fci.FCP.fields.DFName = AID

(***************************************************************************)
(* The commands a trace points to                                          *)
(***************************************************************************)
\* C20: once Send has returned a trace, its first entry holds the caller's
\* command with every field as the caller passed it, every entry holds the
\* command as it was transmitted for it (same fields, same bytes on the
\* wire), and the entry after a 6Cxx entry holds that entry's command with Ne
\* replaced by SW2 while the 6Cxx entry keeps its own Ne.
C20_CommandsNotMutated ==
    (Done /\ ret.trace # <<>>) =>
        /\ Len(ret.trace) <= Len(wire)
        /\ ret.trace[1].Command = input
        /\ \A k \in DOMAIN ret.trace :
              /\ ret.trace[k].Command = wire[k].apdu
              /\ Bytes(ret.trace[k].Command) = wire[k].raw
        /\ \A k \in 1..(Len(ret.trace) - 1) :
              SW1(ret.trace[k].Response.Status) = 108 =>
                  /\ ret.trace[k + 1].Command =
                         [ret.trace[k].Command EXCEPT
                              !.Ne = SW2(ret.trace[k].Response.Status)]
                  /\ ret.trace[k].Command.Ne = wire[k].apdu.Ne

\* READ RECORD with Ne = 256 answered 6C 05, then 90 00: the first entry
\* keeps Ne = 256 and the second has Ne = 5.
C20_Witness ==
    /\ Done
    /\ ret.err = NoErr
    /\ Len(ret.trace) = 2
    /\ input.Instruction.Raw = INS_READ_RECORD
    /\ ret.trace[1].Response.Status = NewStatusWord(108, 5)
    /\ ret.trace[1].Command.Ne = 256
    /\ ret.trace[2].Command.Ne = 5

\* C21: when ParseSelectData returns an error, the FileControlInfo it returns
\* with it is nil.
C21_NoResultWithError ==
    (output.done /\ output.err # NoErr) => output.fci.isNil

\* The payload of the last transaction of the trace, decoded.
FinalPayload == input[Len(input)].Response.Data

\* The trace is a successful SELECT with control FCI whose final payload is
\* a 6F template holding tag 84 and tag A5 and neither 62 nor 64.
SelectedWith6F ==
    /\ output.done /\ output.created
    /\ TraceIsSuccess(input)
    /\ GetRange(input[1].Command.P2, 4, 3) = 0
    /\ FinalPayload # <<>>
    /\ FinalPayload[1] = TAG_FCI
    /\ BerDecode(FinalPayload).ok
    /\ LET children == BerDecode(FinalPayload).tlvs[1].TLVs IN
       /\ HasTag(children, 132) /\ HasTag(children, 165)
       /\ ~HasTag(children, TAG_FCP) /\ ~HasTag(children, TAG_FMD)

\* C22: for such a trace the parsed result has FCP and FMD, the value of tag
\* 84 is FCP.DFName and also FMD.ApplicationIdentifier, and tag A5 is
\* FCP.ProprietaryDataBER.
C22_DFNameInFCPAndFMD ==
    SelectedWith6F =>
        LET children == BerDecode(FinalPayload).tlvs[1].TLVs
            name == getPacketRawData(children[FirstWithTag(children, 132)])
            prop == getPacketRawData(children[FirstWithTag(children, 165)])
        IN  /\ output.err = NoErr
            /\ ~output.fci.isNil
            /\ output.fci.FCP.present /\ output.fci.FMD.present
            /\ output.fci.FCP.fields.DFName = name
            /\ output.fci.FCP.fields.ProprietaryDataBER = prop
            /\ output.fci.FMD.fields.ApplicationIdentifier = name

(***************************************************************************)
(* Class.Encode on Class values                                            *)
(***************************************************************************)
\* A Class is a struct with exported fields: every combination of a raw
\* byte, the two flags, a defined SecureMessaging and a channel 0-19.
ClassValues ==
    [Raw : {0, 12, 128, 165}, IsProprietary : BOOLEAN, IsChained : BOOLEAN,
     SecureMessaging : DefinedSM, Channel : 0..19]

ApplyEncode == Applied([done |-> TRUE, encoded |-> Encode(input)])

InitEncode == input \in ClassValues /\ output = NoOutput /\ Idle

NextEncode == ApplyEncode

SpecEncode == InitEncode /\ [][NextEncode]_vars

\* C23: Class.Encode returns the stored raw byte for a proprietary class;
\* for a non-proprietary class with channel <= 3 the first-interindustry
\* layout (bit 5 chaining, bits 4-3 secure messaging, bits 2-1 channel); and
\* with channel >= 4 the further-interindustry layout (bit 7 set, bit 5
\* chaining, bits 4-1 channel - 4) with bit 6 set iff SecureMessaging is
\* HeaderNoProc, clear for None, Proprietary and HeaderAuth.
C23_EncodeLayout ==
    output.done =>
        IF input.IsProprietary THEN output.encoded = input.Raw
        ELSE IF input.Channel <= 3
        THEN output.encoded =
                 (IF input.IsChained THEN 16 ELSE 0)
                     + input.SecureMessaging * 4 + input.Channel
        ELSE /\ ~IsSet(output.encoded, 8)
             /\ IsSet(output.encoded, 7)
             /\ IsSet(output.encoded, 6) = (input.SecureMessaging = SMHeaderNoProc)
             /\ IsSet(output.encoded, 5) = input.IsChained
             /\ GetRange(output.encoded, 4, 1) = input.Channel - 4

(***************************************************************************)
(* StatusWord.Verbose                                                      *)
(*                                                                         *)
(* A text is held as its format and the number printed in it.              *)
(***************************************************************************)
\* The status words declared as constants (0x9000, 0x6200 ... 0x6F00): the
\* ones the generated String method has a name for.
StaticCodes ==
    { 36864, 25088, 25090, 25217, 25218, 25219, 25220, 25221, 25222, 25344,
      25473, 25536, 25600, 25601, 25602, 25856, 25985, 26112, 26368, 26624,
      26753, 26754, 26755, 26756, 26880, 27009, 27010, 27011, 27012, 27013,
      27014, 27015, 27016, 27136, 27264, 27265, 27266, 27267, 27268, 27269,
      27270, 27271, 27272, 27273, 27274, 27392, 27904, 28160, 28416 }

\* StatusWord.String (generated by stringer): the name of the constant, or
\* "StatusWord(n)" for a value that is no constant.
HasStaticName(sw) == sw \in StaticCodes

IsTriggeringByCard(sw) ==
    IF SW2(sw) < 2 \/ SW2(sw) > 128 THEN FALSE
    ELSE SW1(sw) = 98 \/ SW1(sw) = 100

IsCounter(sw) ==
    IF SW1(sw) # 99 THEN FALSE
    ELSE GetRange(SW2(sw), 8, 5) = 12

genericCategoryDescription(sw) ==
    CASE SW1(sw) = 98 -> "Warning: NV memory unchanged"
      [] SW1(sw) = 99 -> "Warning: NV memory changed"
      [] SW1(sw) = 100 -> "Execution Error: NV memory unchanged"
      [] SW1(sw) = 101 -> "Execution Error: NV memory changed"
      [] SW1(sw) = 102 -> "Execution Error: Security issue"
      [] SW1(sw) = 104 -> "Checking Error: Function not supported"
      [] SW1(sw) = 105 -> "Checking Error: Command not allowed"
      [] SW1(sw) = 106 -> "Checking Error: Wrong parameters"
      [] OTHER -> "Unknown Status"

Text(format, n) == [format |-> format, n |-> n]

\* The static name is looked up before the dynamic rules.
VerboseStaticFirst(sw) ==
    IF HasStaticName(sw) THEN Text("[%04X] <name of the constant>", sw)
    ELSE IF IsTriggeringByCard(sw)
    THEN Text(IF SW1(sw) = 100
              THEN "Error/Abort (Triggering): Card expects query of %d bytes"
              ELSE "Warning (Triggering): Card expects query of %d bytes", SW2(sw))
    ELSE IF IsCounter(sw)
    THEN Text("Warning: State changed, counter = %d", GetRange(SW2(sw), 4, 1))
    ELSE IF SW1(sw) = 97 THEN Text("Process completed, %d bytes available", SW2(sw))
    ELSE IF SW1(sw) = 108 THEN Text("Wrong length, correct Le is %d", SW2(sw))
    ELSE Text("[%04X] " \o genericCategoryDescription(sw), sw)

\* StatusWord.Verbose
Verbose(sw) ==
    IF IsTriggeringByCard(sw)
    THEN Text(IF SW1(sw) = 100
              THEN "Error/Abort (Triggering): Card expects query of %d bytes"
              ELSE "Warning (Triggering): Card expects query of %d bytes", SW2(sw))
    ELSE IF IsCounter(sw)
    THEN Text("Warning: State changed, counter = %d", GetRange(SW2(sw), 4, 1))
    ELSE IF SW1(sw) = 97 THEN Text("Process completed, %d bytes available", SW2(sw))
    ELSE IF SW1(sw) = 108 THEN Text("Wrong length, correct Le is %d", SW2(sw))
    ELSE IF ~HasStaticName(sw) THEN Text("[%04X] " \o genericCategoryDescription(sw), sw)
    ELSE Text("[%04X] <name of the constant>", sw)

ApplyVerbose == Applied([done |-> TRUE, text |-> Verbose(input)])

InitVerbose == input \in AllStatusWords /\ output = NoOutput /\ Idle

NextVerbose == ApplyVerbose

SpecVerbose == InitVerbose /\ [][NextVerbose]_vars

\* C24: Verbose gives the triggering-by-card text for SW1 in {62, 64} with
\* SW2 in 02..80; else the counter text for 63Cx; else the bytes-available
\* text for 61xx; else the wrong-length text for 6Cxx; else the static name
\* of the code if it has one; else the generic category of its SW1.  So 6202,
\* 6402 and 63C0, which have static names, get the dynamic texts.
C24_VerbosePriority ==
    output.done =>
        LET sw1 == input \div 256
            sw2 == input % 256
        IN  IF sw1 \in {98, 100} /\ sw2 >= 2 /\ sw2 <= 128
            THEN /\ output.text.n = sw2
                 /\ output.text.format =
                        IF sw1 = 98
                        THEN "Warning (Triggering): Card expects query of %d bytes"
                        ELSE "Error/Abort (Triggering): Card expects query of %d bytes"
            ELSE IF sw1 = 99 /\ sw2 \div 16 = 12
            THEN output.text = Text("Warning: State changed, counter = %d", sw2 % 16)
            ELSE IF sw1 = 97
            THEN output.text = Text("Process completed, %d bytes available", sw2)
            ELSE IF sw1 = 108
            THEN output.text = Text("Wrong length, correct Le is %d", sw2)
            ELSE IF input \in StaticCodes
            THEN output.text = Text("[%04X] <name of the constant>", input)
            ELSE /\ output.text.n = input
                 /\ output.text.format \in
                        {"[%04X] " \o d : d \in
                            {"Warning: NV memory unchanged", "Warning: NV memory changed",
                             "Execution Error: NV memory unchanged",
                             "Execution Error: NV memory changed",
                             "Execution Error: Security issue",
                             "Checking Error: Function not supported",
                             "Checking Error: Command not allowed",
                             "Checking Error: Wrong parameters", "Unknown Status"}}
                 /\ (sw1 = 106) =
                        (output.text.format = "[%04X] Checking Error: Wrong parameters")

\* 6202 (SW_WARN_TRIGGERING_BY_CARD) reads "Card expects query of 2 bytes".
C24_Witness ==
    /\ output.done
    /\ input = 98 * 256 + 2
    /\ output.text = Text("Warning (Triggering): Card expects query of %d bytes", 2)

(***************************************************************************)
(* Client.Send: failures, the shape of a returned trace, the commands      *)
(* that follow one another                                                 *)
(***************************************************************************)
\* C25 (state part): once the latest Transmit call has failed (an error, or a
\* reply shorter than 2 bytes) the activation has returned a non-nil error,
\* and so has every activation that has returned since; a failure of the very
\* first exchange ends the invocation with an empty trace.
FailureReturnsError ==
    LastFailed =>
        /\ ret.set
        /\ ret.err \in {ErrTransmission, ErrTooShort}
        /\ (wire[Len(wire)].reply.err <=> ret.err = ErrTransmission)
        /\ Len(stack) < Len(wire)
        /\ (Len(wire) = 1 => (Done /\ ret.trace = <<>>))

\* C25 (step part): after a failed exchange no step is a Transmit call.
NoTransmitAfterFailure == LastFailed => wire' = wire

\* C25: a failed exchange (Transmit error or a reply shorter than 2 bytes) is
\* fatal to the Send invocation: no further Transmit call is made, a non-nil
\* error is returned, and a failure on the very first exchange returns an
\* empty trace.
C25_TransportFailureFatal == []FailureReturnsError /\ [][NoTransmitAfterFailure]_vars

\* Send has returned after its third exchange failed in the transport.
C25_Witness ==
    /\ Done
    /\ Len(wire) = 3
    /\ wire[3].reply.err
    /\ ret.err = ErrTransmission

\* C26: a Send that returns without error returns a non-empty trace in which
\* every transaction but the last has SW1 in {0x61, 0x6C} and the last has
\* SW1 outside that set; Trace.IsSuccess of it is true iff the final status
\* is exactly 0x9000.
C26_ReturnedTraceShape ==
    (Done /\ ret.err = NoErr) =>
        LET t == ret.trace
            n == Len(ret.trace)
        IN  /\ n >= 1
            /\ \A i \in 1..(n - 1) :
                  /\ t[i].Response.present
                  /\ t[i].Response.Status \div 256 \in {97, 108}
            /\ t[n].Response.present
            /\ t[n].Response.Status \div 256 \notin {97, 108}
            /\ TraceIsSuccess(t) <=> (t[n].Response.Status = 36864)

\* A successful return of three transactions ending in 90 00, and one whose
\* final status is not 90 00, differ in IsSuccess; the first is reached.
C26_Witness ==
    /\ Done /\ ret.err = NoErr
    /\ Len(ret.trace) = 3
    /\ ret.trace[1].Response.Status \div 256 = 97
    /\ ret.trace[2].Response.Status \div 256 = 108
    /\ ret.trace[3].Response.Status = 36864
    /\ TraceIsSuccess(ret.trace)

\* C27 (one step): a Transmit call that is not the first carries a command
\* computed from the transaction just before it.
DerivedFromPreceding ==
    (wire' # wire /\ wire # <<>>) =>
        LET prev == wire[Len(wire)].apdu
            nxt == wire'[Len(wire')].apdu
            sw == StatusOf(Len(wire))
        IN  /\ Len(wire') = Len(wire) + 1
            /\ Completed(Len(wire))
            /\ sw \div 256 \in {97, 108}
            /\ (sw \div 256 = 97) =>
                  /\ nxt.Instruction.Raw = INS_GET_RESPONSE
                  /\ nxt.P1 = 0 /\ nxt.P2 = 0 /\ nxt.Data = <<>>
                  /\ nxt.Ne = sw % 256
                  /\ nxt.Class = [prev.Class EXCEPT !.IsChained = FALSE]
            /\ (sw \div 256 = 108) =>
                  /\ nxt = [prev EXCEPT !.Ne = sw % 256]
                  /\ (prev.Instruction.Raw = INS_GET_RESPONSE /\ prev.P1 = 0 /\ prev.P2 = 0)
                        => (/\ nxt.Instruction.Raw = INS_GET_RESPONSE
                            /\ nxt.P1 = 0 /\ nxt.P2 = 0
                            /\ (input.Instruction.Raw # INS_GET_RESPONSE
                                   => nxt.Instruction # input.Instruction))

\* C27: every command transmitted after the first is derived from the
\* transaction just before it only: GET RESPONSE after 61xx, the preceding
\* command with Ne = SW2 after 6Cxx; a GET RESPONSE answered 6Cxx is followed
\* by GET RESPONSE again (INS 0xC0, P1 = P2 = 0), never by the original
\* command.
C27_NextFromPreceding == [][DerivedFromPreceding]_vars

\* A SELECT or GET DATA answered 61xx, its GET RESPONSE answered 6Cxx, and a
\* third command on the wire.
C27_Witness ==
    /\ Len(wire) >= 3
    /\ wire[1].apdu.Instruction.Raw # INS_GET_RESPONSE
    /\ StatusOf(1) \div 256 = 97
    /\ wire[2].apdu.Instruction.Raw = INS_GET_RESPONSE
    /\ StatusOf(2) \div 256 = 108
    /\ wire[3].apdu.Instruction.Raw = INS_GET_RESPONSE
    /\ wire[3].apdu.Ne = StatusOf(2) % 256

\* The header and, when the command has data, the Lc field and the data.
HeaderAndData(raw, cmd) ==
    /\ Len(raw) = 4 + (IF cmd.Data = <<>> THEN 0 ELSE 1 + Len(cmd.Data))
    /\ raw[2] = cmd.Instruction.Raw /\ raw[3] = cmd.P1 /\ raw[4] = cmd.P2
    /\ cmd.Data # <<>> =>
          /\ raw[5] = Len(cmd.Data)
          /\ SubSeq(raw, 6, Len(raw)) = cmd.Data

\* C28: after 61 00 the GET RESPONSE has Ne = 0 and goes out as its 4 header
\* bytes, with no Le byte; after 6C 00 the command is sent again with no Le
\* field.
C28_ZeroLengthNoLe ==
    \A i \in Exchanges :
        (i < Len(wire) /\ Completed(i) /\ StatusOf(i) % 256 = 0) =>
            /\ (StatusOf(i) \div 256 = 97) =>
                  /\ wire[i + 1].apdu.Ne = 0
                  /\ Len(wire[i + 1].raw) = 4
                  /\ wire[i + 1].raw[2] = INS_GET_RESPONSE
                  /\ wire[i + 1].raw[3] = 0 /\ wire[i + 1].raw[4] = 0
            /\ (StatusOf(i) \div 256 = 108) =>
                  /\ wire[i + 1].apdu.Ne = 0
                  /\ HeaderAndData(wire[i + 1].raw, wire[i].apdu)

\* A command sent with an Le field is answered 6C 00 and sent again without
\* one; that one is answered 61 00 and the GET RESPONSE is 4 bytes long.
C28_Witness ==
    /\ Len(wire) >= 3
    /\ wire[1].apdu.Ne > 0
    /\ Len(wire[1].raw) > Len(wire[2].raw)
    /\ wire[1].reply = Reply(<<108, 0>>)
    /\ wire[2].reply = Reply(<<97, 0>>)
    /\ Len(wire[3].raw) = 4

(***************************************************************************)
(* SelectResult.FCI: a result or an error                                  *)
(***************************************************************************)
\* C29: SelectResult.FCI never returns a nil FileControlInfo together with a
\* nil error, a successful SELECT with P2 control "no data" and a non-empty
\* payload included.
C29_ResultOrError ==
    (output.done /\ output.created) => ~(output.fci.isNil /\ output.err = NoErr)

(***************************************************************************)
(* FCI-generic control on a working set that holds a 62 or a 64 template   *)
(***************************************************************************)
\* ParseSelectData ran with control FCI on a decoded payload whose working
\* set holds a 62 or a 64 node.
ExplicitMode ==
    /\ output.done
    /\ PayloadDecoded
    /\ SelectControl = 0
    /\ HasTag(SelectWorkingSet, TAG_FCP) \/ HasTag(SelectWorkingSet, TAG_FMD)

\* template is what mapping the children of the first node of the working
\* set tagged tag gives: each field the data of a child carrying its tag (none:
\* empty), the other children in the template's Unknown; with no such node the
\* template is empty.
TemplateOnly(template, schema, tag) ==
    LET W == SelectWorkingSet IN
    IF ~HasTag(W, tag) THEN template = ZeroTemplate(schema)
    ELSE LET children == W[FirstWithTag(W, tag)].TLVs IN
         /\ template.present
         /\ \A k \in DOMAIN schema :
               IF HasTag(children, schema[k].tag)
               THEN HeldByField(template, schema, children, schema[k].tag)
               ELSE template.fields[schema[k].name] = <<>>
         /\ template.Unknown = SelectSeq(children, LAMBDA p : p.Tag \notin SchemaTags(schema))

\* C30: in FCI-generic mode with a 62 or a 64 template in the working set only
\* those templates are mapped: the outer Unknown stays empty, the children of
\* 62 / 64 that match no field stay in FCP.Unknown / FMD.Unknown, and the
\* other siblings of 62 / 64 are reported in no field.
C30_ExplicitTemplatesOnly ==
    ExplicitMode =>
        /\ output.err = NoErr
        /\ ~output.fci.isNil
        /\ output.fci.Unknown = <<>>
        /\ output.fci.ProprietaryRawData = <<>>
        /\ TemplateOnly(output.fci.FCP, FCPSchema, TAG_FCP)
        /\ TemplateOnly(output.fci.FMD, FMDSchema, TAG_FMD)

\* 6F { 62 { 84, 99 }, 64 { 50 }, 82 } with control FCI: 99 stays in
\* FCP.Unknown and the sibling 82 is in no field.
C30_Witness ==
    /\ ExplicitMode
    /\ input.data = BerEncode(<<NewComposite(TAG_FCI,
                        <<NewComposite(TAG_FCP, <<DFName84, Unknown99>>),
                          NewComposite(TAG_FMD, <<Label50>>), Descriptor82>>)>>)
    /\ output.fci.FCP.Unknown = <<Unknown99>>
    /\ output.fci.FCP.fields.FileDescriptor = <<>>
    /\ output.fci.FMD.fields.ApplicationLabel = <<84, 69, 83>>
    /\ output.fci.Unknown = <<>>

=============================================================================
